---- MODULE Spec2Model ----
(***************************************************************************)
(* Model of the anonymous-chat matchmaking backend (src/main.py).          *)
(*                                                                         *)
(* One asyncio task runs websocket_endpoint per connection.  A task runs   *)
(* without interruption between two awaits; every await (accept,           *)
(* send_json, receive_text) is a point where the event loop may run other  *)
(* tasks.  A value of pc[t] names the await the task t is suspended in;    *)
(* one action is the completion of that await followed by the code up to   *)
(* the next await.                                                         *)
(***************************************************************************)
EXTENDS Integers, Sequences, FiniteSets, TLC

\* ---------------------------------------------------------------- bounds
NConn == 3          \* number of connection identities
MaxEvents == 2      \* client events in one run: messages received, peers lost
MaxInbox == 2       \* outbound messages remembered per connection (latest)

Conns == 1..NConn
None == 0           \* Python None
Absent == -1        \* a key that is not part of a sent JSON object
NoText == "<absent>"
Texts == {"hi"}

VARIABLES
    waiting_queue,  \* list[WebSocket]
    partner_map,    \* Dict[WebSocket, WebSocket]; None = key not present
    room_map,       \* Dict[WebSocket, str];       None = key not present
    pc,             \* per task: the await it is suspended in
    ret,            \* per task: where the running pair_clients call returns
    handler_local,  \* per task: partner, room_id, text of the handler frame
    pair_local,     \* per task: a, b, room_id of the pair_clients frame
    inbox,          \* per connection: latest messages the server sent to it
    closed,         \* per connection: the peer is gone, sends to it raise
    next_room,      \* the next value uuid4 returns
    events,         \* number of client events so far
    call,           \* per task: account of its latest pair_clients call
    last_event,     \* the latest client event and the store it arrived in
    enqueued_by_other \* per task: another handler has enqueued a connection
                      \* since the pair_clients call the task is inside began

vars == <<waiting_queue, partner_map, room_map, pc, ret, handler_local,
          pair_local, inbox, closed, next_room, events, call, last_event,
          enqueued_by_other>>

\* ------------------------------------------------------------- helpers
InQueue(q, c) == \E i \in 1..Len(q) : q[i] = c

Count(q, c) == Cardinality({i \in 1..Len(q) : q[i] = c})

\* list.remove(x): removes the first occurrence only
FirstIndex(q, c) == CHOOSE i \in 1..Len(q) : q[i] = c /\ \A j \in 1..(i-1) : q[j] # c

ListRemove(q, c) ==
    IF InQueue(q, c)
    THEN LET i == FirstIndex(q, c)
         IN  SubSeq(q, 1, i-1) \o SubSeq(q, i+1, Len(q))
    ELSE q

\* a re-insert that goes to the tail
InsertFront_Tail(q, c) == Append(q, c)

\* a re-insert that puts the entry back twice
InsertFront_Twice(q, c) == <<c, c>> \o q

\* list.insert(0, x)
InsertFront(q, c) == <<c>> \o q

\* dict.pop(k, None) as a state change
DictPop(d, k) == [d EXCEPT ![k] = None]

Msg(type, roomId, text) == [type |-> type, roomId |-> roomId, text |-> text]

NoHandlerLocal == [partner |-> None, room_id |-> None, text |-> NoText]
NoPairLocal == [a |-> None, b |-> None, room_id |-> None]

\* account of one pair_clients call: n = len(waiting_queue) when it was
\* called, pairs = pairing writes it made, removed = entries it popped minus
\* entries it re-inserted, failed = one of its matched sends raised
NewCall(n) == [n |-> n, pairs |-> 0, removed |-> 0, failed |-> FALSE]

\* ws.send_json raises when the peer is gone
SendOk(cl, c) == ~cl[c]

\* the message reaches c; only the latest MaxInbox messages are remembered
Deliver(ib, c, m) ==
    LET s == Append(ib[c], m)
    IN  [ib EXCEPT ![c] = IF Len(s) > MaxInbox
                          THEN SubSeq(s, Len(s) - MaxInbox + 1, Len(s))
                          ELSE s]

\* a safe_send that swallows the message together with the exception
safe_send_Drop(ib, cl, c, m) == ib

\* safe_send / a send whose exception is swallowed
safe_send(ib, cl, c, m) == IF SendOk(cl, c) THEN Deliver(ib, c, m) ELSE ib

\* ------------------------------------------------------------ inbound
\* raw payloads a client can send: JSON objects by type, a JSON value that
\* is not an object, and text that is not JSON at all
Inbound ==
    {[kind |-> "object", type |-> "next",   text |-> NoText],
     [kind |-> "object", type |-> "typing", text |-> NoText],
     [kind |-> "object", type |-> "chat",   text |-> NoText],
     [kind |-> "object", type |-> "other",  text |-> NoText],
     [kind |-> "scalar", type |-> "",       text |-> NoText]}
    \cup {[kind |-> "object", type |-> "chat", text |-> x] : x \in Texts}
    \cup {[kind |-> "garbage", type |-> "", text |-> x] : x \in Texts}

\* json.loads with the fallback of the except branch
ParseMsg(raw) ==
    IF raw.kind = "garbage"
    THEN [type |-> "chat", text |-> raw.text]
    ELSE [type |-> raw.type, text |-> raw.text]

\* msg.get("text", "")
ChatText(msg) == IF msg.text = NoText THEN "" ELSE msg.text

\* the peer going away, as a client event
PeerGone == [kind |-> "close", type |-> "", text |-> NoText]
NoEvent == [kind |-> "none", type |-> "", text |-> NoText]

\* a task is idle when it is not inside a handler: not accepted yet, waiting
\* in receive_text, or returned
Idle(u) == pc[u] \in {"new", "recv", "done"}

\* the awaits inside pair_clients
InPairClients == {"matched_a", "matched_b", "rollback_notify"}

\* t is between the pairing write of an iteration and the end of its
\* notification or rollback
InTransaction(t) == pc[t] \in InPairClients

\* bookkeeping of a step of task t that did (enq) or did not append or insert
\* into waiting_queue: every other task suspended inside pair_clients has
\* seen an enqueue by another handler; t's own mark lasts as long as its
\* call
NoteEnqueue(t, enq) ==
    enqueued_by_other' =
        [u \in Conns |->
            IF u = t
            THEN /\ pc[t] \in InPairClients
                 /\ pc'[t] \in InPairClients
                 /\ enqueued_by_other[t]
            ELSE enqueued_by_other[u] \/ (enq /\ InTransaction(u))]

\* the event `raw` of connection t, with what the store held for t when it
\* arrived and whether every task was idle then
Event(t, raw) ==
    [conn |-> t, raw |-> raw, partner |-> partner_map[t], room |-> room_map[t],
     queue |-> waiting_queue, idle |-> \A u \in Conns : Idle(u)]

\* ---------------------------------------------------------------- init
Init ==
    /\ waiting_queue = <<>>
    /\ partner_map = [c \in Conns |-> None]
    /\ room_map = [c \in Conns |-> None]
    /\ pc = [c \in Conns |-> "new"]
    /\ ret = [c \in Conns |-> "recv"]
    /\ handler_local = [c \in Conns |-> NoHandlerLocal]
    /\ pair_local = [c \in Conns |-> NoPairLocal]
    /\ inbox = [c \in Conns |-> <<>>]
    /\ closed = [c \in Conns |-> FALSE]
    /\ next_room = 1
    /\ events = 0
    /\ call = [c \in Conns |-> NewCall(0)]
    /\ last_event = [conn |-> None, raw |-> NoEvent, partner |-> None,
                     room |-> None, queue |-> <<>>, idle |-> TRUE]
    /\ enqueued_by_other = [c \in Conns |-> FALSE]

\* ------------------------------------------------------- pair_clients
\* The head of the while loop of pair_clients, run by task t on the store
\* (q, pm, rm) the preceding code of the same step left, up to the first
\* await of the iteration (a.send_json) or the return to `r`; cr is the
\* account of the call so far.
pair_loop(t, q, pm, rm, r, cr) ==
    IF Len(q) >= 2
    THEN LET a == q[1]
             b == q[2]
             room_id == next_room
         IN  /\ waiting_queue' = SubSeq(q, 3, Len(q))
             /\ partner_map' = [[pm EXCEPT ![a] = b] EXCEPT ![b] = a]
             /\ room_map' = [[rm EXCEPT ![a] = room_id] EXCEPT ![b] = room_id]
             /\ pair_local' = [pair_local EXCEPT
                                 ![t] = [a |-> a, b |-> b, room_id |-> room_id]]
             /\ next_room' = next_room + 1
             /\ pc' = [pc EXCEPT ![t] = "matched_a"]
             /\ ret' = [ret EXCEPT ![t] = r]
             /\ call' = [call EXCEPT ![t] = [cr EXCEPT !.pairs = @ + 1,
                                                       !.removed = @ + 2]]
    ELSE /\ waiting_queue' = q
         /\ partner_map' = pm
         /\ room_map' = rm
         /\ pair_local' = [pair_local EXCEPT ![t] = NoPairLocal]
         /\ next_room' = next_room
         /\ pc' = [pc EXCEPT ![t] = r]
         /\ ret' = [ret EXCEPT ![t] = "recv"]
         /\ call' = [call EXCEPT ![t] = cr]

\* a pair_clients that returns without looking at the queue
pair_clients_Skip(t, q, pm, rm, r) ==
    /\ waiting_queue' = q
    /\ partner_map' = pm
    /\ room_map' = rm
    /\ pair_local' = [pair_local EXCEPT ![t] = NoPairLocal]
    /\ next_room' = next_room
    /\ pc' = [pc EXCEPT ![t] = r]
    /\ ret' = [ret EXCEPT ![t] = "recv"]
    /\ call' = [call EXCEPT ![t] = NewCall(Len(q))]

\* await pair_clients() from a handler
pair_clients(t, q, pm, rm, r) == pair_loop(t, q, pm, rm, r, NewCall(Len(q)))

\* the four pops of a rollback
Unpair(d, a, b) == DictPop(DictPop(d, a), b)

\* await a.send_json(matched) completes
MatchedA(t) ==
    /\ pc[t] = "matched_a"
    /\ LET a == pair_local[t].a
           b == pair_local[t].b
           room_id == pair_local[t].room_id
       IN  IF SendOk(closed, a)
           THEN /\ inbox' = Deliver(inbox, a, Msg("matched", room_id, NoText))
                /\ pc' = [pc EXCEPT ![t] = "matched_b"]
                /\ UNCHANGED <<waiting_queue, partner_map, room_map, ret,
                               pair_local, next_room, call>>
           ELSE /\ inbox' = inbox
                /\ pair_loop(t, InsertFront(waiting_queue, b),
                             Unpair(partner_map, a, b),
                             Unpair(room_map, a, b), ret[t],
                             [call[t] EXCEPT !.failed = TRUE,
                                             !.removed = @ - 1])
    /\ UNCHANGED <<handler_local, closed, events>>
    /\ UNCHANGED last_event
    /\ NoteEnqueue(t, ~SendOk(closed, pair_local[t].a))

\* await b.send_json(matched) completes
MatchedB(t) ==
    /\ pc[t] = "matched_b"
    /\ LET b == pair_local[t].b
           room_id == pair_local[t].room_id
       IN  IF SendOk(closed, b)
           THEN /\ inbox' = Deliver(inbox, b, Msg("matched", room_id, NoText))
                /\ pair_loop(t, waiting_queue, partner_map, room_map, ret[t],
                             call[t])
           ELSE /\ inbox' = inbox
                /\ pc' = [pc EXCEPT ![t] = "rollback_notify"]
                /\ call' = [call EXCEPT ![t].failed = TRUE]
                /\ UNCHANGED <<waiting_queue, partner_map, room_map, ret,
                               pair_local, next_room>>
    /\ UNCHANGED <<handler_local, closed, events>>
    /\ UNCHANGED last_event
    /\ NoteEnqueue(t, FALSE)

\* await a.send_json(partner_disconnect) of the second rollback completes
RollbackNotify(t) ==
    /\ pc[t] = "rollback_notify"
    /\ LET a == pair_local[t].a
           b == pair_local[t].b
       IN  /\ inbox' = safe_send(inbox, closed, a,
                                 Msg("partner_disconnect", Absent, NoText))
           /\ pair_loop(t, InsertFront(waiting_queue, a),
                        Unpair(partner_map, a, b),
                        Unpair(room_map, a, b), ret[t],
                        [call[t] EXCEPT !.removed = @ - 1])
    /\ UNCHANGED <<handler_local, closed, events>>
    /\ UNCHANGED last_event
    /\ NoteEnqueue(t, TRUE)

\* ------------------------------------------------- websocket_endpoint
\* await websocket.accept() is reached; connections are opaque identities,
\* so they are accepted in index order
Accept(t) ==
    /\ pc[t] = "new"
    /\ \A u \in Conns : u < t => pc[u] # "new"
    /\ pc' = [pc EXCEPT ![t] = "connect_searching"]
    /\ UNCHANGED <<waiting_queue, partner_map, room_map, ret, handler_local,
                   pair_local, inbox, closed, next_room, events, call>>
    /\ UNCHANGED last_event
    /\ NoteEnqueue(t, FALSE)

\* safe_send(searching) completes; append; pair_clients
Connect(t) ==
    /\ pc[t] = "connect_searching"
    /\ inbox' = safe_send(inbox, closed, t, Msg("searching", Absent, NoText))
    /\ pair_clients(t, Append(waiting_queue, t), partner_map, room_map, "recv")
    /\ UNCHANGED <<handler_local, closed, events>>
    /\ UNCHANGED last_event
    /\ NoteEnqueue(t, TRUE)

\* `next`: leave the current partner and requeue (lines 159-165 or 169)
RecvNext(t) ==
    /\ pc[t] = "recv"
    /\ ~closed[t]
    /\ events < MaxEvents
    /\ events' = events + 1
    /\ \E raw \in Inbound :
         /\ raw.kind # "scalar"
         /\ ParseMsg(raw).type = "next"
         /\ last_event' = Event(t, raw)
    /\ LET partner == partner_map[t]
           room_id == room_map[t]
       IN  IF partner # None
           THEN /\ partner_map' = DictPop(DictPop(partner_map, t), partner)
                /\ room_map' = DictPop(DictPop(room_map, t), partner)
                /\ handler_local' = [handler_local EXCEPT
                      ![t] = [partner |-> partner, room_id |-> room_id,
                              text |-> NoText]]
                /\ pc' = [pc EXCEPT ![t] = "next_partner_disconnect"]
                /\ UNCHANGED waiting_queue
           ELSE /\ partner_map' = DictPop(partner_map, t)
                /\ room_map' = DictPop(room_map, t)
                /\ handler_local' = handler_local
                /\ waiting_queue' = Append(waiting_queue, t)
                /\ pc' = [pc EXCEPT ![t] = "next_searching_self"]
    /\ UNCHANGED <<ret, pair_local, inbox, closed, next_room, call>>
    /\ NoteEnqueue(t, partner_map[t] = None)

\* a `next` that puts the former partner at the head of the queue
NextPartnerDisconnect_Front(t) ==
    /\ pc[t] = "next_partner_disconnect"
    /\ inbox' = safe_send(inbox, closed, handler_local[t].partner,
                          Msg("partner_disconnect", handler_local[t].room_id, NoText))
    /\ waiting_queue' = <<handler_local[t].partner>> \o waiting_queue
    /\ pc' = [pc EXCEPT ![t] = "next_searching_partner"]
    /\ UNCHANGED <<partner_map, room_map, ret, handler_local, pair_local,
                   closed, next_room, events, call, last_event>>
    /\ NoteEnqueue(t, TRUE)

\* safe_send(partner, partner_disconnect) completes; append(partner)
NextPartnerDisconnect(t) ==
    /\ pc[t] = "next_partner_disconnect"
    /\ inbox' = safe_send(inbox, closed, handler_local[t].partner,
                          Msg("partner_disconnect", handler_local[t].room_id, NoText))
    /\ waiting_queue' = Append(waiting_queue, handler_local[t].partner)
    /\ pc' = [pc EXCEPT ![t] = "next_searching_partner"]
    /\ UNCHANGED <<partner_map, room_map, ret, handler_local, pair_local,
                   closed, next_room, events, call>>
    /\ UNCHANGED last_event
    /\ NoteEnqueue(t, TRUE)

\* safe_send(partner, searching) completes; append(websocket)
NextSearchingPartner(t) ==
    /\ pc[t] = "next_searching_partner"
    /\ inbox' = safe_send(inbox, closed, handler_local[t].partner,
                          Msg("searching", Absent, NoText))
    /\ waiting_queue' = Append(waiting_queue, t)
    /\ handler_local' = [handler_local EXCEPT ![t] = NoHandlerLocal]
    /\ pc' = [pc EXCEPT ![t] = "next_searching_self"]
    /\ UNCHANGED <<partner_map, room_map, ret, pair_local, closed, next_room, events, call>>
    /\ UNCHANGED last_event
    /\ NoteEnqueue(t, TRUE)

\* safe_send(websocket, searching) completes; pair_clients; continue
NextSearchingSelf(t) ==
    /\ pc[t] = "next_searching_self"
    /\ inbox' = safe_send(inbox, closed, t, Msg("searching", Absent, NoText))
    /\ pair_clients(t, waiting_queue, partner_map, room_map, "recv")
    /\ UNCHANGED <<handler_local, closed, events>>
    /\ UNCHANGED last_event
    /\ NoteEnqueue(t, FALSE)

\* `typing`: forwarded to the partner if there is one
RecvTyping(t) ==
    /\ pc[t] = "recv"
    /\ ~closed[t]
    /\ events < MaxEvents
    /\ events' = events + 1
    /\ \E raw \in Inbound :
         /\ raw.kind # "scalar"
         /\ ParseMsg(raw).type = "typing"
         /\ last_event' = Event(t, raw)
    /\ LET partner == partner_map[t]
       IN  IF partner # None
           THEN /\ handler_local' = [handler_local EXCEPT
                      ![t] = [partner |-> partner, room_id |-> None,
                              text |-> NoText]]
                /\ pc' = [pc EXCEPT ![t] = "typing_send"]
           ELSE UNCHANGED <<handler_local, pc>>
    /\ UNCHANGED <<waiting_queue, partner_map, room_map, ret, pair_local,
                   inbox, closed, next_room, call>>
    /\ NoteEnqueue(t, FALSE)

TypingSend(t) ==
    /\ pc[t] = "typing_send"
    /\ inbox' = safe_send(inbox, closed, handler_local[t].partner,
                          Msg("typing", Absent, NoText))
    /\ handler_local' = [handler_local EXCEPT ![t] = NoHandlerLocal]
    /\ pc' = [pc EXCEPT ![t] = "recv"]
    /\ UNCHANGED <<waiting_queue, partner_map, room_map, ret, pair_local,
                   closed, next_room, events, call>>
    /\ UNCHANGED last_event
    /\ NoteEnqueue(t, FALSE)

\* `chat` (also the fallback for payloads that are not JSON)
RecvChat(t) ==
    /\ pc[t] = "recv"
    /\ ~closed[t]
    /\ events < MaxEvents
    /\ events' = events + 1
    /\ \E raw \in Inbound :
         /\ raw.kind # "scalar"
         /\ ParseMsg(raw).type = "chat"
         /\ last_event' = Event(t, raw)
         /\ LET partner == partner_map[t]
                text == ChatText(ParseMsg(raw))
            IN  /\ handler_local' = [handler_local EXCEPT
                      ![t] = [partner |-> partner, room_id |-> None,
                              text |-> text]]
                /\ pc' = [pc EXCEPT ![t] = IF partner # None
                                           THEN "chat_send" ELSE "system_send"]
    /\ UNCHANGED <<waiting_queue, partner_map, room_map, ret, pair_local,
                   inbox, closed, next_room, call>>
    /\ NoteEnqueue(t, FALSE)

ChatSend(t) ==
    /\ pc[t] = "chat_send"
    /\ inbox' = safe_send(inbox, closed, handler_local[t].partner,
                          Msg("chat", Absent, handler_local[t].text))
    /\ handler_local' = [handler_local EXCEPT ![t] = NoHandlerLocal]
    /\ pc' = [pc EXCEPT ![t] = "recv"]
    /\ UNCHANGED <<waiting_queue, partner_map, room_map, ret, pair_local,
                   closed, next_room, events, call>>
    /\ UNCHANGED last_event
    /\ NoteEnqueue(t, FALSE)

SystemSend(t) ==
    /\ pc[t] = "system_send"
    /\ inbox' = safe_send(inbox, closed, t,
                          Msg("system", Absent, "Waiting for a partner..."))
    /\ handler_local' = [handler_local EXCEPT ![t] = NoHandlerLocal]
    /\ pc' = [pc EXCEPT ![t] = "recv"]
    /\ UNCHANGED <<waiting_queue, partner_map, room_map, ret, pair_local,
                   closed, next_room, events, call>>
    /\ UNCHANGED last_event
    /\ NoteEnqueue(t, FALSE)

\* unknown types are ignored
RecvOther(t) ==
    /\ pc[t] = "recv"
    /\ ~closed[t]
    /\ \E raw \in Inbound :
         /\ raw.kind # "scalar"
         /\ ParseMsg(raw).type \notin {"next", "typing", "chat"}
         /\ last_event' = Event(t, raw)
    /\ events < MaxEvents
    /\ events' = events + 1
    /\ UNCHANGED <<waiting_queue, partner_map, room_map, pc, ret, handler_local,
                   pair_local, inbox, closed, next_room, call>>
    /\ NoteEnqueue(t, FALSE)

\* ---------------------------------------------------------- disconnect
\* receive_text raises WebSocketDisconnect (peer gone), or msg.get raises on
\* a JSON value that is not an object: disconnect(websocket) up to its
\* first await
RecvDisconnect(t) ==
    /\ pc[t] = "recv"
    /\ \/ closed[t] /\ events' = events /\ last_event' = last_event
       \/ /\ ~closed[t]
          /\ \E raw \in Inbound :
               raw.kind = "scalar" /\ last_event' = Event(t, raw)
          /\ events < MaxEvents
          /\ events' = events + 1
    /\ LET partner == partner_map[t]
           room_id == room_map[t]
       IN  /\ waiting_queue' = ListRemove(waiting_queue, t)
           /\ IF partner # None
              THEN /\ partner_map' = DictPop(DictPop(partner_map, t), partner)
                   /\ room_map' = DictPop(DictPop(room_map, t), partner)
                   /\ handler_local' = [handler_local EXCEPT
                         ![t] = [partner |-> partner, room_id |-> room_id,
                                 text |-> NoText]]
                   /\ pc' = [pc EXCEPT ![t] = "disconnect_partner_disconnect"]
              ELSE /\ partner_map' = DictPop(partner_map, t)
                   /\ room_map' = DictPop(room_map, t)
                   /\ handler_local' = handler_local
                   /\ pc' = [pc EXCEPT ![t] = "done"]
    /\ UNCHANGED <<ret, pair_local, inbox, closed, next_room, call>>
    /\ NoteEnqueue(t, FALSE)

\* a disconnect that notifies the partner but forgets to requeue it
DisconnectPartnerDisconnect_NoRequeue(t) ==
    /\ pc[t] = "disconnect_partner_disconnect"
    /\ inbox' = safe_send(inbox, closed, handler_local[t].partner,
                          Msg("partner_disconnect", handler_local[t].room_id, NoText))
    /\ pc' = [pc EXCEPT ![t] = "disconnect_searching"]
    /\ UNCHANGED <<waiting_queue, partner_map, room_map, ret, handler_local,
                   pair_local, closed, next_room, events, call, last_event>>
    /\ NoteEnqueue(t, FALSE)

\* safe_send(partner, partner_disconnect) completes; append(partner)
DisconnectPartnerDisconnect(t) ==
    /\ pc[t] = "disconnect_partner_disconnect"
    /\ inbox' = safe_send(inbox, closed, handler_local[t].partner,
                          Msg("partner_disconnect", handler_local[t].room_id, NoText))
    /\ waiting_queue' = Append(waiting_queue, handler_local[t].partner)
    /\ pc' = [pc EXCEPT ![t] = "disconnect_searching"]
    /\ UNCHANGED <<partner_map, room_map, ret, handler_local, pair_local,
                   closed, next_room, events, call>>
    /\ UNCHANGED last_event
    /\ NoteEnqueue(t, TRUE)

\* safe_send(partner, searching) completes; pair_clients; handler ends
DisconnectSearching(t) ==
    /\ pc[t] = "disconnect_searching"
    /\ inbox' = safe_send(inbox, closed, handler_local[t].partner,
                          Msg("searching", Absent, NoText))
    /\ handler_local' = [handler_local EXCEPT ![t] = NoHandlerLocal]
    /\ pair_clients(t, waiting_queue, partner_map, room_map, "done")
    /\ UNCHANGED <<closed, events>>
    /\ UNCHANGED last_event
    /\ NoteEnqueue(t, FALSE)

\* ---------------------------------------------------------- environment
\* the peer of an accepted connection goes away
Close(t) ==
    /\ pc[t] # "new"
    /\ ~closed[t]
    /\ events < MaxEvents
    /\ events' = events + 1
    /\ closed' = [closed EXCEPT ![t] = TRUE]
    /\ last_event' = Event(t, PeerGone)
    /\ UNCHANGED <<waiting_queue, partner_map, room_map, pc, ret,
                   handler_local, pair_local, inbox, next_room, call>>
    /\ NoteEnqueue(t, FALSE)

Step(t) ==
    \/ Accept(t)
    \/ Connect(t)
    \/ MatchedA(t)
    \/ MatchedB(t)
    \/ RollbackNotify(t)
    \/ RecvNext(t)
    \/ NextPartnerDisconnect(t)
    \/ NextSearchingPartner(t)
    \/ NextSearchingSelf(t)
    \/ RecvTyping(t)
    \/ TypingSend(t)
    \/ RecvChat(t)
    \/ ChatSend(t)
    \/ SystemSend(t)
    \/ RecvOther(t)
    \/ RecvDisconnect(t)
    \/ DisconnectPartnerDisconnect(t)
    \/ DisconnectSearching(t)

Next == \E t \in Conns : Step(t) \/ Close(t)

Spec == Init /\ [][Next]_vars

\* ================================================================ claims
Paired(c) == partner_map[c] # None

\* C1 (I1): in every reachable state no connection appears more than once in
\* waiting_queue.
C1_NoDuplicateInQueue == \A c \in Conns : Count(waiting_queue, c) <= 1

\* C2 (I4): in every reachable state no connection is at once an element of
\* waiting_queue and a key of partner_map.
C2_WaitingXorPaired == \A c \in Conns : ~(InQueue(waiting_queue, c) /\ Paired(c))

\* C3 (I2): at every await point partner_map is symmetric: partner_map[a] = b
\* implies partner_map[b] = a.
C3_PartnerSymmetric ==
    \A c \in Conns : Paired(c) => partner_map[partner_map[c]] = c

\* C4 (I3): every paired connection has the room id of its partner, and no
\* room id is shared by two different live pairs.
C4_RoomShared ==
    /\ \A c \in Conns : Paired(c) => room_map[c] = room_map[partner_map[c]]
    /\ \A c, d \in Conns :
          (room_map[c] # None /\ room_map[c] = room_map[d])
             => (d = c \/ partner_map[c] = d \/ partner_map[d] = c)

\* C5: a pairing binds two distinct connections: no connection is its own
\* partner.
C5_NoSelfPair == \A c \in Conns : partner_map[c] # c

\* C6: a `next` from a connection that is waiting and not paired leaves
\* waiting_queue, partner_map and room_map as they are.
C6_NextWhileWaitingIsNoop ==
    [][\A t \in Conns :
          (RecvNext(t) /\ InQueue(waiting_queue, t) /\ ~Paired(t))
             => /\ waiting_queue' = waiting_queue
                /\ partner_map' = partner_map
                /\ room_map' = room_map]_vars

\* C7: a pair_clients call that finds n >= 2 entries and sees no send fail
\* has, when it returns, removed exactly 2 entries and made exactly one pair.
C7_OneCallOnePair ==
    \A t \in Conns :
        (pc[t] \in {"recv", "done"} /\ call[t].n >= 2 /\ ~call[t].failed)
           => (call[t].pairs = 1 /\ call[t].removed = 2)

Searching == Msg("searching", Absent, NoText)
Matched(r) == Msg("matched", r, NoText)
ConnectDone(t) == pc[t] = "recv"
NotYetQueued(t) == pc[t] \in {"new", "connect_searching"}

\* C8: in a run of fresh connections with no send failure and no client
\* message, a connection whose connect finished alone is the sole queue entry
\* and has received `searching` only; two connections whose connects finished
\* as a pair are each other's partner in one room, have both received
\* `searching` and then `matched` with that room id, and the queue is empty
\* unless a third connection has queued since.
C8_ConnectScenario ==
    events = 0 =>
      \A t \in Conns : ConnectDone(t) =>
        IF ~Paired(t)
        THEN waiting_queue = <<t>> /\ inbox[t] = <<Searching>>
        ELSE LET u == partner_map[t]
             IN  /\ u # t
                 /\ partner_map[u] = t
                 /\ room_map[t] # None
                 /\ room_map[u] = room_map[t]
                 /\ ~InQueue(waiting_queue, t)
                 /\ ConnectDone(u) =>
                       /\ inbox[t] = <<Searching, Matched(room_map[t])>>
                       /\ inbox[u] = <<Searching, Matched(room_map[t])>>
                       /\ (\A v \in Conns \ {t, u} : NotYetQueued(v))
                             => waiting_queue = <<>>

C8_Witness ==
    /\ events = 0
    /\ ConnectDone(1) /\ ConnectDone(2) /\ ConnectDone(3)
    /\ partner_map[1] = 2 /\ partner_map[2] = 1
    /\ inbox[1] = <<Searching, Matched(1)>>
    /\ inbox[2] = <<Searching, Matched(1)>>
    /\ waiting_queue = <<3>>
    /\ inbox[3] = <<Searching>>

\* C9: when pair_clients popped two distinct connections a, b from a queue
\* without duplicates and the `matched` send to a fails, the rollback leaves
\* a in neither map nor the queue and b at the front of the queue exactly
\* once: either b is then the sole entry with no partner and no room, or the
\* loop goes on and pairs b with the connection c that waited at the head.
C9_FirstNotifyRollback ==
    [][\A t \in Conns :
          (/\ MatchedA(t)
           /\ ~SendOk(closed, pair_local[t].a)
           /\ pair_local[t].a # pair_local[t].b
           /\ C1_NoDuplicateInQueue) =>
             LET a == pair_local[t].a
                 b == pair_local[t].b
             IN  /\ ~InQueue(waiting_queue', a)
                 /\ partner_map'[a] = None
                 /\ room_map'[a] = None
                 /\ IF waiting_queue = <<>>
                    THEN /\ waiting_queue' = <<b>>
                         /\ partner_map'[b] = None
                         /\ room_map'[b] = None
                    ELSE LET c == waiting_queue[1]
                         IN  /\ c \notin {a, b}
                             /\ partner_map'[b] = c
                             /\ partner_map'[c] = b
                             /\ room_map'[b] = room_map'[c]
                             /\ ~InQueue(waiting_queue', b)]_vars

\* C10: when pair_clients popped two distinct connections a, b from a queue
\* without duplicates, the `matched` send to a succeeds and the one to b
\* fails, then, whatever a or b did while the sends were in flight, the
\* rollback leaves b in no structure, a has been sent `partner_disconnect`
\* if it can be reached, and a is at the front of the queue exactly once:
\* either a is then the sole entry with no partner and no room, or the loop
\* goes on and pairs a with the connection c that waited at the head.
C10_SecondNotifyRollback ==
    [][\A t \in Conns :
          (/\ RollbackNotify(t)
           /\ pair_local[t].a # pair_local[t].b
           /\ C1_NoDuplicateInQueue) =>
             LET a == pair_local[t].a
                 b == pair_local[t].b
             IN  /\ ~InQueue(waiting_queue', b)
                 /\ partner_map'[b] = None
                 /\ room_map'[b] = None
                 /\ SendOk(closed, a) =>
                       /\ inbox'[a] # <<>>
                       /\ inbox'[a][Len(inbox'[a])].type = "partner_disconnect"
                 /\ IF waiting_queue = <<>>
                    THEN /\ waiting_queue' = <<a>>
                         /\ partner_map'[a] = None
                         /\ room_map'[a] = None
                    ELSE LET c == waiting_queue[1]
                         IN  /\ c \notin {a, b}
                             /\ partner_map'[a] = c
                             /\ partner_map'[c] = a
                             /\ room_map'[a] = room_map'[c]
                             /\ ~InQueue(waiting_queue', a)]_vars

PartnerDisconnect(r) == Msg("partner_disconnect", r, NoText)

\* the latest messages c has received are exactly ms, in that order
EndsWith(c, ms) ==
    /\ Len(inbox[c]) >= Len(ms)
    /\ SubSeq(inbox[c], Len(inbox[c]) - Len(ms) + 1, Len(inbox[c])) = ms

\* the only client event so far is `raw` from connection b, and it arrived
\* while every task was idle
OnlyEvent(b, raw) ==
    /\ events = 1
    /\ last_event.conn = b
    /\ last_event.raw = raw
    /\ last_event.idle

\* C11: a and b are paired in room r, nobody waits, every task is idle and
\* b's peer goes away; nothing else happens.  When b's disconnect has
\* returned, a has received `partner_disconnect` with r and then
\* `searching`, a is the queue, and neither map holds a or b as key or value.
C11_PartnerDisconnectScenario ==
    \A a, b \in Conns :
        (/\ a # b
         /\ OnlyEvent(b, PeerGone)
         /\ last_event.partner = a
         /\ last_event.queue = <<>>
         /\ pc[b] = "done"
         /\ \A v \in Conns \ {a, b} : NotYetQueued(v))
        => /\ last_event.room # None
           /\ EndsWith(a, <<PartnerDisconnect(last_event.room), Searching>>)
           /\ waiting_queue = <<a>>
           /\ partner_map[a] = None /\ partner_map[b] = None
           /\ room_map[a] = None /\ room_map[b] = None
           /\ \A d \in Conns : partner_map[d] \notin {a, b}
           /\ \A d \in Conns : room_map[d] # last_event.room

C11_Witness ==
    /\ OnlyEvent(2, PeerGone)
    /\ last_event.partner = 1
    /\ last_event.room = 1
    /\ last_event.queue = <<>>
    /\ pc[2] = "done"
    /\ pc[3] = "new"
    /\ EndsWith(1, <<PartnerDisconnect(1), Searching>>)
    /\ waiting_queue = <<1>>

\* C12: once disconnect(c) has returned, c is not in waiting_queue and is
\* neither key nor value of partner_map or room_map, then and ever after.
C12_GoneAfterDisconnect ==
    \A c \in Conns :
        pc[c] = "done"
           => /\ ~InQueue(waiting_queue, c)
              /\ partner_map[c] = None
              /\ room_map[c] = None
              /\ \A d \in Conns : partner_map[d] # c

IsNext(raw) == raw.kind # "scalar" /\ ParseMsg(raw).type = "next"

\* the only client event so far: c1, paired with c2 while c3 alone waits and
\* every task is idle, sends `next`
NextScenario(c1, c2, c3) ==
    /\ c1 # c2 /\ c1 # c3 /\ c2 # c3
    /\ events = 1
    /\ last_event.conn = c1
    /\ IsNext(last_event.raw)
    /\ last_event.idle
    /\ last_event.partner = c2
    /\ last_event.queue = <<c3>>
    /\ \A v \in Conns \ {c1, c2, c3} : NotYetQueued(v)

\* C13: c1, paired with c2 in room r1 while c3 waits, sends `next`.  c2
\* receives `partner_disconnect` (r1) and is enqueued, then receives
\* `searching` and c1 is enqueued behind it, then c1 receives `searching`;
\* the pair_clients call of the same handler pairs c3 with c2 in a new room,
\* both are told `matched`, and c1 is left as the only waiting connection.
C13_NextScenario ==
    \A c1, c2, c3 \in Conns :
        NextScenario(c1, c2, c3) =>
            /\ last_event.room # None
            /\ pc[c1] \in {"next_partner_disconnect", "next_searching_partner",
                            "next_searching_self", "matched_a", "matched_b", "recv"}
            /\ pc[c1] = "next_partner_disconnect" =>
                   /\ waiting_queue = <<c3>>
                   /\ \A d \in Conns : ~Paired(d) /\ room_map[d] = None
            /\ pc[c1] = "next_searching_partner" =>
                   /\ EndsWith(c2, <<PartnerDisconnect(last_event.room)>>)
                   /\ waiting_queue = <<c3, c2>>
                   /\ \A d \in Conns : ~Paired(d)
            /\ pc[c1] = "next_searching_self" =>
                   /\ EndsWith(c2, <<PartnerDisconnect(last_event.room), Searching>>)
                   /\ waiting_queue = <<c3, c2, c1>>
                   /\ \A d \in Conns : ~Paired(d)
            /\ pc[c1] \in {"matched_a", "matched_b", "recv"} =>
                   /\ EndsWith(c1, <<Searching>>)
                   /\ waiting_queue = <<c1>>
                   /\ partner_map[c3] = c2 /\ partner_map[c2] = c3
                   /\ partner_map[c1] = None /\ room_map[c1] = None
                   /\ room_map[c3] = room_map[c2]
                   /\ room_map[c3] \notin {None, last_event.room}
            /\ pc[c1] = "recv" =>
                   /\ EndsWith(c3, <<Searching, Matched(room_map[c3])>>)
                   /\ EndsWith(c2, <<Searching, Matched(room_map[c3])>>)

C13_Witness ==
    /\ NextScenario(1, 2, 3)
    /\ pc[1] = "recv"
    /\ waiting_queue = <<1>>
    /\ partner_map = <<None, 3, 2>>
    /\ EndsWith(2, <<Searching, Matched(2)>>)

StoreUnchanged == UNCHANGED <<waiting_queue, partner_map, room_map>>

\* exactly one message m reaches c and nothing reaches anyone else
OnlyTo(c, m) == inbox' = Deliver(inbox, c, m)

\* C14: a `chat` from a sender with a partner delivers one `chat` with the
\* same text to the partner and nothing to the sender; without a partner it
\* delivers one `system` notice to the sender and no `chat`; `typing` is
\* forwarded to the partner or does nothing; none of them changes the
\* waiting queue or the maps.
C14_RelayRouting ==
    [][\A t \in Conns :
        LET p == handler_local[t].partner
        IN  /\ (pc[t] = "recv" /\ pc'[t] \in {"chat_send", "system_send", "typing_send"})
                => /\ StoreUnchanged
                   /\ inbox' = inbox
                   /\ handler_local'[t].partner = partner_map[t]
                   /\ (pc'[t] = "system_send") <=> (last_event'.raw.type # "typing"
                                                     /\ partner_map[t] = None)
            /\ (pc[t] = "chat_send" /\ pc'[t] = "recv")
                => /\ StoreUnchanged
                   /\ inbox'[t] = inbox[t]
                   /\ ~closed[p] => OnlyTo(p, Msg("chat", Absent, handler_local[t].text))
            /\ (pc[t] = "system_send" /\ pc'[t] = "recv")
                => /\ StoreUnchanged
                   /\ ~closed[t] => OnlyTo(t, Msg("system", Absent, "Waiting for a partner..."))
            /\ (pc[t] = "typing_send" /\ pc'[t] = "recv")
                => /\ StoreUnchanged
                   /\ inbox'[t] = inbox[t]
                   /\ ~closed[p] => OnlyTo(p, Msg("typing", Absent, NoText))
            /\ (pc[t] = "recv" /\ pc'[t] = "recv" /\ last_event'.conn = t
                  /\ events' = events + 1 /\ last_event'.raw.type = "typing")
                => /\ StoreUnchanged
                   /\ inbox' = inbox
                   /\ partner_map[t] = None
    ]_vars

\* task t wrote a new pairing in this step
PairingStep(t) ==
    /\ next_room' = next_room + 1
    /\ pc'[t] = "matched_a"
    /\ pair_local'[t].room_id = next_room

\* the connection a rollback of t puts back in this step, if any
Reinserted(t) ==
    CASE pc[t] = "matched_a" -> pair_local[t].b
      [] pc[t] = "rollback_notify" -> pair_local[t].a
      [] OTHER -> None

\* the queue as the loop condition of t's pair_clients sees it in this step
QueueSeen(t) ==
    CASE pc[t] = "connect_searching" -> waiting_queue \o <<t>>
      [] Reinserted(t) # None -> <<Reinserted(t)>> \o waiting_queue
      [] OTHER -> waiting_queue

\* C15: every pairing takes the two entries at the head of waiting_queue; of
\* two waiting connections the later one is never paired while the earlier
\* one stays behind, except for the connection a rollback re-inserts at the
\* front.
C15_FifoMatching ==
    [][\A t \in Conns :
        PairingStep(t) =>
            LET seen == QueueSeen(t)
                a == pair_local'[t].a
                b == pair_local'[t].b
            IN  /\ Len(seen) >= 2
                /\ a = seen[1]
                /\ b = seen[2]
                /\ waiting_queue' = SubSeq(seen, 3, Len(seen))
                /\ \A x, y \in Conns :
                      (/\ InQueue(waiting_queue, x) /\ InQueue(waiting_queue, y)
                       /\ FirstIndex(waiting_queue, x) < FirstIndex(waiting_queue, y)
                       /\ y \in {a, b}
                       /\ y # Reinserted(t))
                         => x \in {a, b}
    ]_vars

\* a rollback put 2 back in front of 3, which had arrived meanwhile, and the
\* same call paired them
C15_Witness ==
    /\ closed[1]
    /\ pc[2] = "matched_a"
    /\ call[2].failed
    /\ pair_local[2].a = 2
    /\ pair_local[2].b = 3
    /\ waiting_queue = <<>>

\* C16: every `partner_disconnect` a client has received, whichever path
\* sent it, carries a roomId, the one of the dissolved pairing.
C16_PartnerDisconnectHasRoom ==
    \A c \in Conns : \A i \in DOMAIN inbox[c] :
        inbox[c][i].type = "partner_disconnect"
           => inbox[c][i].roomId \in 1..(next_room - 1)

Lifecycle == {"searching", "matched", "partner_disconnect"}

\* the lifecycle messages c has received, in order
RECURSIVE LifecycleOf(_)
LifecycleOf(s) ==
    IF s = <<>> THEN <<>>
    ELSE IF Head(s).type \in Lifecycle
         THEN <<Head(s)>> \o LifecycleOf(Tail(s))
         ELSE LifecycleOf(Tail(s))

LastMatched(c) ==
    LET l == LifecycleOf(inbox[c])
    IN  l # <<>> /\ l[Len(l)].type = "matched"

LastRoom(c) ==
    LET l == LifecycleOf(inbox[c])
    IN  l[Len(l)].roomId

Open(c) == ~closed[c] /\ pc[c] = "recv"

\* C17: whenever no handler is mid-operation and the last lifecycle message
\* an open connection c received is `matched` with room r, c has a partner,
\* room_map[c] = r and the partner's room is r as well.
C17_NotifiedIsConsistent ==
    (\A u \in Conns : Idle(u)) =>
        \A c \in Conns :
            (Open(c) /\ LastMatched(c))
               => /\ Paired(c)
                  /\ room_map[c] = LastRoom(c)
                  /\ room_map[partner_map[c]] = LastRoom(c)

\* this step is not one of t's own
Waits(t) ==
    /\ pc'[t] = pc[t]
    /\ pair_local'[t] = pair_local[t]
    /\ call'[t] = call[t]

\* C18: while a pair_clients call is between its pairing write and the end
\* of that iteration, no step of another handler changes waiting_queue,
\* partner_map or room_map.
C18_PairingIndivisible ==
    [][\A t \in Conns :
        (InTransaction(t) /\ Waits(t)) => StoreUnchanged
    ]_vars

\* C19: whenever every started handler has run to completion, fewer than
\* two entries wait.
C19_EagerPairing == (\A u \in Conns : Idle(u)) => Len(waiting_queue) < 2

\* two client events have been handled, a send has failed, and the handlers
\* have all finished with one connection left waiting
C19_Witness ==
    /\ \A u \in Conns : Idle(u)
    /\ events = 2
    /\ \E t \in Conns : call[t].failed
    /\ Len(waiting_queue) = 1
    /\ \A u \in Conns : pc[u] # "new"

\* C20: as long as no other handler has enqueued a connection since it
\* began, a pair_clients call that was entered with n entries waiting has,
\* inside each iteration, a queue of at most n minus its net removals; each
\* iteration started has removed at least one entry net (two on success,
\* one on either rollback), so the call makes at most n - 1 iterations and
\* ends.
C20_PairClientsTerminates ==
    \A t \in Conns :
        (InTransaction(t) /\ ~enqueued_by_other[t])
           => /\ Len(waiting_queue) <= call[t].n - call[t].removed
              /\ call[t].removed >= call[t].pairs + 1
              /\ call[t].pairs <= call[t].n - 1

\* a call entered with three entries waiting, undisturbed by enqueues of
\* other handlers, has rolled one iteration back and is inside its second
C20_Witness ==
    \E t \in Conns :
        /\ pc[t] = "matched_a"
        /\ ~enqueued_by_other[t]
        /\ call[t].n = 3
        /\ call[t].failed
        /\ call[t].pairs = 2
        /\ call[t].removed = 3
        /\ waiting_queue = <<>>

====
